---- MODULE Spec2Model ----
(***************************************************************************)
(* Model of jip.cli.submit (src/jip/cli/__init__.py): reconciliation of a  *)
(* freshly built job graph against the job table, persistence of the       *)
(* surviving batch, group-wise submission to the cluster backend and the   *)
(* cleanup that follows a failed submission.                               *)
(*                                                                         *)
(* One behaviour is one invocation of submit.  Init fixes the built job    *)
(* graph, the content of the job table and the flags; the actions follow   *)
(* the statements of submit in program order.                              *)
(*                                                                         *)
(* Spec       submit from the reconciliation on, over every table.         *)
(* SpecCli    submit from its first statement, and run.                    *)
(* SpecRange  resolve_job_range over id strings.                           *)
(* SpecQuery  query_jobs_by_ids, _query_jobs and read_ids_from_pipe.       *)
(* SpecMain   main and _main of jip_main.py, dispatching to submit and run.*)
(* SpecLoop   Spec with every exception the submission loop can meet.      *)
(* SpecTwo    two invocations of submit interleaved on one table.          *)
(***************************************************************************)
EXTENDS Integers, Sequences, FiniteSets, TLC

\* Number of jobs that create_jobs returned for this invocation.
MaxJobs == 3
\* Largest number of rows in the job table before the invocation.
MaxDbJobs == 1

Jobs == 1..MaxJobs
NoJob == 0
\* job_id of a job that was never submitted (Python None)
NoClusterId == 0

STATE_HOLD == "Hold"
STATE_QUEUED == "Queued"
STATE_RUNNING == "Running"
STATE_DONE == "Done"
STATE_FAILED == "Failed"
STATE_CANCELED == "Canceled"
States == {STATE_HOLD, STATE_QUEUED, STATE_RUNNING, STATE_DONE, STATE_FAILED, STATE_CANCELED}
STATES_ACTIVE == {STATE_RUNNING, STATE_QUEUED}

\* What cluster.submit may raise; the bare except of submit catches anything.
BackendErrors == {"SubmissionError", "IOError"}
\* What jip.cluster.get and jip.jobs.create_jobs may raise.
ClusterErrors == {"ClusterImplementationError"}
BuildErrors == {"ParserException", "ValidationError", "ToolNotFoundException"}
NoError == "none"

(***************************************************************************)
(* Paths are sequences of components; an absolute path starts with "/".    *)
(***************************************************************************)
Sep == "/"
WorkDir == <<Sep, "w">>
OtherDir == <<Sep, "v">>
OutNames == <<"o1", "o2", "o3", "o4", "o5", "o6">>
RelOut(j) == <<OutNames[j]>>
AbsOut(j) == WorkDir \o <<OutNames[j]>>

startswith_sep(of) == Len(of) > 0 /\ Head(of) = Sep

path_join(dir, of) == dir \o of

\* The key under which submit files an output: relative paths are joined to
\* the working directory of the job, absolute paths are kept.
Resolved(wd, of) == IF ~startswith_sep(of) THEN path_join(wd, of) ELSE of

VARIABLES
    dependencies,       \* built job -> set of built jobs it depends on
    group_from,         \* built job -> the job it continues as a group, or NoJob
    working_directory,  \* built job -> working directory
    tool_output,        \* built job -> declared output file
    built_state,        \* built job -> state it had when create_jobs returned
    state,              \* built job -> current state attribute
    job_id,             \* built job -> cluster id attribute
    force, hold,        \* arguments of submit
    db,                 \* committed rows of the job table
    db_before,          \* the table when submit was called
    attached,           \* built jobs that are persistent in the session
    jobs,               \* the local list `jobs`
    unfinished_jobs,    \* the local set `unfinished_jobs`
    already_running,    \* the keys of the local dict `already_running`
    gi,                 \* index of the next group of the submission loop
    calls,              \* heads passed to cluster.submit, in call order
    exc,                \* the exception caught by the except clause
    raised,             \* the exception that left submit or run
    pc,                 \* position in submit or run
    command,            \* the function of jip.cli that is executing
    executed,           \* heads passed to jip.jobs.run, in call order
    exit_code,          \* status passed to sys.exit, 0 while there was none
    ids,                \* the argument of resolve_job_range
    result,             \* the list resolve_job_range returned
    args,               \* the dict `args` of _query_jobs
    stdin,              \* sys.stdin: whether it is a terminal, and its lines
    query,              \* the keyword arguments of query_jobs_by_ids
    query_result,       \* the rows selected by the returned query
    cmd,                \* args['<command>'] of the jip command, "" when absent
    second              \* a concurrent invocation of submit on the same table

vars == <<dependencies, group_from, working_directory, tool_output, built_state,
          state, job_id, force, hold, db, db_before, attached, jobs,
          unfinished_jobs, already_running, gi, calls, exc, raised, pc,
          command, executed, exit_code, ids, result, args, stdin, query,
          query_result, cmd, second>>

\* What no statement of submit after line 598 assigns.
graph == <<dependencies, group_from, working_directory, tool_output, built_state,
           force, hold, db_before, command, executed, exit_code, ids, result,
           args, stdin, query, query_result, cmd, second>>

\* A Python value that is a string or a list: strings are sequences of
\* characters, lists are sequences of strings.
Str(s) == [kind |-> "str", v |-> s]
List(l) == [kind |-> "list", v |-> l]
None == [kind |-> "None", v |-> <<>>]

\* No other invocation works on the table.
Alone ==
    [pc |-> "none", output |-> <<>>, state |-> STATE_HOLD, job_id |-> NoClusterId,
     already_running |-> FALSE, queried_at |-> "none", saved_at |-> "none"]

\* No query is made.
NoQuery ==
    /\ args = [has_job |-> FALSE, job |-> None, has_cluster |-> FALSE, cluster |-> None]
    /\ stdin = [isatty |-> TRUE, lines |-> <<>>]
    /\ query = [job_ids |-> None, cluster_ids |-> None, archived |-> "False",
                query_all |-> TRUE]
    /\ query_result = {}
    /\ cmd = ""
    /\ second = Alone

\* submit and run receive no id list.
NoIdList == ids = List(<<>>) /\ result = <<>> /\ NoQuery

(***************************************************************************)
(* Helpers on finite sets and sequences                                    *)
(***************************************************************************)
Range(s) == {s[i] : i \in DOMAIN s}

Min(S) == CHOOSE x \in S : \A y \in S : x <= y

RECURSIVE SortedSeq(_)
SortedSeq(S) == IF S = {} THEN <<>> ELSE <<Min(S)>> \o SortedSeq(S \ {Min(S)})

(***************************************************************************)
(* jip.jobs graph algorithms                                               *)
(***************************************************************************)
children(j) == {c \in Jobs : j \in dependencies[c]}

\* Jobs of the input with no dependency inside the input.
get_parents(S) == {j \in S : dependencies[j] \cap S = {}}

\* Transitive closure of children, the job included.
RECURSIVE Closure(_)
Closure(S) ==
    LET T == S \cup {c \in Jobs : dependencies[c] \cap S # {}}
    IN IF T = S THEN S ELSE Closure(T)

get_subgraph(job) == Closure({job})

\* Jobs are numbered in the order create_jobs returns them: a topological
\* order in which the members of a group are contiguous and in group order.
topological_order(S) == SortedSeq(S)

IsHead(j, S) == group_from[j] = NoJob \/ group_from[j] \notin S

RECURSIVE Chain(_, _)
Chain(j, S) ==
    LET next == {c \in S : group_from[c] = j}
    IN IF next = {} THEN <<j>> ELSE <<j>> \o Chain(Min(next), S)

\* One group per head, head first, groups in topological order.
create_groups(S) ==
    LET heads == SortedSeq({j \in S : IsHead(j, S)})
    IN [i \in 1..Len(heads) |-> Chain(heads[i], S)]

get_output_files(j) == {tool_output[j]}

(***************************************************************************)
(* The job table                                                           *)
(***************************************************************************)
\* Output declarations of the rows that are in the table before the call:
\* the path of some built job, the same relative name under another
\* working directory, and an absolute path declared under another directory.
DbOutputs ==
    {<<WorkDir, RelOut(j)>> : j \in Jobs}
        \cup {<<OtherDir, RelOut(1)>>, <<OtherDir, AbsOut(1)>>}

DbRow(i, s, a, o) ==
    [id |-> i, state |-> s, job_id |-> i, archived |-> a,
     working_directory |-> o[1], output |-> o[2]]

\* Row ids are assigned on persistence, after the ids already in use.
RowId(j) == MaxDbJobs + j
OwnIds == {RowId(j) : j \in Jobs}

Row(j, st, jid) ==
    [id |-> RowId(j), state |-> st[j], job_id |-> jid[j], archived |-> FALSE,
     working_directory |-> working_directory[j], output |-> tool_output[j]]

\* session.commit(): the rows of the persistent jobs are written with their
\* current attributes, the rows of deleted jobs are removed.
commit_mut_whole_table(table, att, st, jid) == {Row(j, st, jid) : j \in att}
commit(table, att, st, jid) ==
    {r \in table : r.id \notin OwnIds} \cup {Row(j, st, jid) : j \in att}

\* Resolved output paths of the rows in state Queued, Running or Hold
\* (the keys of the dict `files`).
active_files(table) ==
    {Resolved(r.working_directory, r.output) :
        r \in {x \in table : x.state \in STATES_ACTIVE \cup {STATE_HOLD}}}

resolved_outputs(j) ==
    {Resolved(working_directory[j], of) : of \in get_output_files(j)}

(***************************************************************************)
(* Reconciliation (force = False)                                          *)
(***************************************************************************)
\* Parents with a group whose head is not Done.
unfinished_mut_wrong_state(parents) ==
    {p \in parents :
        LET groups == create_groups(get_subgraph(p))
        IN \E i \in DOMAIN groups : state[groups[i][1]] # STATE_HOLD}
unfinished(parents) ==
    {p \in parents :
        LET groups == create_groups(get_subgraph(p))
        IN \E i \in DOMAIN groups : state[groups[i][1]] # STATE_DONE}

\* Parents with a job in their subgraph whose output is filed by an active row.
running_mut_parent_only(parents, files) ==
    {p \in parents : resolved_outputs(p) \cap files # {}}
running(parents, files) ==
    {p \in parents :
        LET groups == create_groups(get_subgraph(p))
        IN \E i \in DOMAIN groups : \E k \in DOMAIN groups[i] :
              resolved_outputs(groups[i][k]) \cap files # {}}

all_jobs(unf, run) == UNION {get_subgraph(p) : p \in unf \ run}

(***************************************************************************)
(* Initial states: a built job graph, a job table, the flags               *)
(***************************************************************************)
\* The built jobs have pairwise distinct resolved outputs (check_output_files
\* passed): job j declares an output named after j, relative to its working
\* directory when j is odd and absolute when j is even.
GraphOk(d, g) ==
    /\ \A j \in Jobs : d[j] \subseteq 1..(j - 1)
    /\ \A j \in Jobs : g[j] # NoJob => (g[j] = j - 1 /\ g[j] \in d[j])

Init ==
    /\ dependencies \in [Jobs -> SUBSET Jobs]
    /\ group_from \in [Jobs -> Jobs \cup {NoJob}]
    /\ GraphOk(dependencies, group_from)
    /\ working_directory = [j \in Jobs |-> WorkDir]
    /\ tool_output = [j \in Jobs |-> IF j % 2 = 1 THEN RelOut(j) ELSE AbsOut(j)]
    /\ built_state \in [Jobs -> {STATE_HOLD, STATE_DONE}]
    /\ state = built_state
    /\ job_id = [j \in Jobs |-> NoClusterId]
    /\ force \in BOOLEAN
    /\ hold \in BOOLEAN
    /\ \E n \in 0..MaxDbJobs :
         \E s \in [1..n -> States], a \in [1..n -> BOOLEAN], o \in [1..n -> DbOutputs] :
            db = {DbRow(i, s[i], a[i], o[i]) : i \in 1..n}
    /\ db_before = db
    /\ attached = {}
    /\ jobs = topological_order(Jobs)
    /\ unfinished_jobs = {}
    /\ already_running = {}
    /\ gi = 1
    /\ calls = <<>>
    /\ exc = NoError
    /\ raised = NoError
    /\ pc = "reconcile"
    /\ command = "submit"
    /\ executed = <<>>
    /\ exit_code = 0
    /\ NoIdList

(***************************************************************************)
(* submit, statement by statement                                          *)
(***************************************************************************)
\* if not force: ... (lines 602-660) and the empty check of line 662
Reconcile ==
    /\ pc = "reconcile"
    /\ IF force
       THEN /\ pc' = IF Len(jobs) = 0 THEN "returned" ELSE "save"
            /\ UNCHANGED <<jobs, unfinished_jobs, already_running>>
       ELSE LET parents == get_parents(Range(jobs))
                files == active_files(db)
                unf == unfinished(parents)
                run == running(parents, files)
                new_jobs == topological_order(all_jobs(unf, run))
            IN /\ unfinished_jobs' = unf
               /\ already_running' = run
               /\ IF unf # {}
                  THEN /\ jobs' = new_jobs
                       /\ pc' = IF Len(new_jobs) = 0 THEN "returned" ELSE "save"
                  ELSE /\ jobs' = jobs
                       /\ pc' = "returned"
    /\ UNCHANGED <<graph, state, job_id, db, attached, gi, calls, exc, raised>>

\* if hold: return
after_save_mut_ignore_hold(h) == "loop"
after_save(h) == IF h THEN "returned" ELSE "loop"

\* map(_session.add, jobs); _session.commit(); if hold: return
Save ==
    /\ pc = "save"
    /\ attached' = attached \cup Range(jobs)
    /\ db' = commit(db, attached', state, job_id)
    /\ pc' = after_save(hold)
    /\ UNCHANGED <<graph, state, job_id, jobs, unfinished_jobs, already_running,
                   gi, calls, exc, raised>>

Groups == create_groups(Range(jobs))
InLoop == pc = "loop" /\ gi <= Len(Groups)
\* if job.state == jip.db.STATE_DONE and not force
Skipped_mut_never(head) == FALSE
Skipped_mut_ignore_force(head) == state[head] = STATE_DONE
Skipped(head) == state[head] = STATE_DONE /\ ~force

\* for other in g[1:]: other.job_id = job.job_id
copy_job_id_mut_none(jid, g) == jid
copy_job_id_mut_second_only(jid, g) ==
    [j \in Jobs |-> IF Len(g) > 1 /\ j = g[2] THEN jid[g[1]] ELSE jid[j]]
copy_job_id(jid, g) ==
    [j \in Jobs |-> IF j \in Range(Tail(g)) THEN jid[g[1]] ELSE jid[j]]

\* set_state(job, STATE_QUEUED)
set_state(st, job, new_state) == [st EXCEPT ![job] = new_state]

\* One iteration of the loop whose head is Done and not forced.
SkipGroup ==
    /\ InLoop
    /\ Skipped(Groups[gi][1])
    /\ job_id' = copy_job_id(job_id, Groups[gi])
    /\ db' = commit(db, attached, state, job_id')
    /\ gi' = gi + 1
    /\ UNCHANGED <<graph, state, attached, jobs, unfinished_jobs, already_running,
                   calls, exc, raised, pc>>

\* One iteration of the loop in which cluster.submit accepts the head.
SubmitGroup ==
    /\ InLoop
    /\ ~Skipped(Groups[gi][1])
    /\ LET g == Groups[gi]
           head == g[1]
           submitted == [job_id EXCEPT ![head] = Len(calls) + 1]
       IN /\ state' = set_state(state, head, STATE_QUEUED)
          /\ calls' = Append(calls, head)
          /\ job_id' = copy_job_id(submitted, g)
          /\ db' = commit(db, attached, state', job_id')
    /\ gi' = gi + 1
    /\ UNCHANGED <<graph, attached, jobs, unfinished_jobs, already_running,
                   exc, raised, pc>>

\* One iteration of the loop in which cluster.submit raises.
SubmitRaises ==
    /\ InLoop
    /\ ~Skipped(Groups[gi][1])
    /\ state' = set_state(state, Groups[gi][1], STATE_QUEUED)
    /\ calls' = Append(calls, Groups[gi][1])
    /\ \E e \in BackendErrors : exc' = e
    /\ pc' = "failure"
    /\ UNCHANGED <<graph, job_id, db, attached, jobs, unfinished_jobs,
                   already_running, gi, raised>>

\* jip.jobs.delete(j, session=_session, ...): the job is no longer persistent.
delete(att, j) == att \ {j}

\* submission_failure(): the jobs of `for j in jobs`
deleted_mut_submitted_only(js) == {j \in Range(js) : job_id[j] # NoClusterId}
deleted(js) == Range(js)

DeleteJobs ==
    /\ pc = "failure"
    /\ attached' = {a \in attached : \A j \in deleted(jobs) : a \in delete(attached, j)}
    /\ pc' = "failure_commit"
    /\ UNCHANGED <<graph, state, job_id, db, jobs, unfinished_jobs, already_running,
                   gi, calls, exc, raised>>

\* submission_failure(): _session.commit()
FailureCommit ==
    /\ pc = "failure_commit"
    /\ db' = commit(db, attached, state, job_id)
    /\ pc' = "reraise"
    /\ UNCHANGED <<graph, state, job_id, attached, jobs, unfinished_jobs,
                   already_running, gi, calls, exc, raised>>

\* the bare raise of the except clause
reraised_mut_wrapped(e) == "SubmissionError"
reraised(e) == e

Reraise ==
    /\ pc = "reraise"
    /\ raised' = reraised(exc)
    /\ pc' = "raised"
    /\ UNCHANGED <<graph, state, job_id, db, attached, jobs, unfinished_jobs,
                   already_running, gi, calls, exc>>

\* the commit after the loop
Finish ==
    /\ pc = "loop"
    /\ gi > Len(Groups)
    /\ db' = commit(db, attached, state, job_id)
    /\ pc' = "returned"
    /\ UNCHANGED <<graph, state, job_id, attached, jobs, unfinished_jobs,
                   already_running, gi, calls, exc, raised>>

Next ==
    \/ Reconcile
    \/ Save
    \/ SkipGroup
    \/ SubmitGroup
    \/ SubmitRaises
    \/ DeleteJobs
    \/ FailureCommit
    \/ Reraise
    \/ Finish

Spec == Init /\ [][Next]_vars

(***************************************************************************)
(* The other exceptions of the submission loop                             *)
(***************************************************************************)
\* What _session.commit() may raise, and the interrupt of the user.
LoopErrors == {"OperationalError", "KeyboardInterrupt"}

\* except: of line 704 has no exception class, it catches everything
caught_mut_exception_only(e) == e # "KeyboardInterrupt"
caught(e) == TRUE

\* One iteration of the loop in which the _session.commit() of line 703
\* raises, or is interrupted: the table is left as it was.
CommitRaises ==
    /\ InLoop
    /\ LET g == Groups[gi]
           head == g[1]
           submitted == [job_id EXCEPT ![head] = Len(calls) + 1]
       IN IF Skipped(head)
          THEN /\ job_id' = copy_job_id(job_id, g)
               /\ UNCHANGED <<state, calls>>
          ELSE /\ state' = set_state(state, head, STATE_QUEUED)
               /\ calls' = Append(calls, head)
               /\ job_id' = copy_job_id(submitted, g)
    /\ \E e \in LoopErrors :
          /\ exc' = e
          /\ pc' = IF caught(e) THEN "failure" ELSE "raised"
          /\ raised' = IF caught(e) THEN raised ELSE e
    /\ UNCHANGED <<graph, db, attached, jobs, unfinished_jobs, already_running, gi>>

\* One iteration of the loop in which the user interrupts cluster.submit.
SubmitInterrupted ==
    /\ InLoop
    /\ ~Skipped(Groups[gi][1])
    /\ state' = set_state(state, Groups[gi][1], STATE_QUEUED)
    /\ calls' = Append(calls, Groups[gi][1])
    /\ exc' = "KeyboardInterrupt"
    /\ pc' = IF caught("KeyboardInterrupt") THEN "failure" ELSE "raised"
    /\ raised' = IF caught("KeyboardInterrupt") THEN raised ELSE "KeyboardInterrupt"
    /\ UNCHANGED <<graph, job_id, db, attached, jobs, unfinished_jobs,
                   already_running, gi>>

NextLoop ==
    \/ Next
    \/ CommitRaises
    \/ SubmitInterrupted

SpecLoop == Init /\ [][NextLoop]_vars

(***************************************************************************)
(* submit from its first statement, and run                                *)
(***************************************************************************)
\* jip.jobs.check_output_files(jobs): two jobs resolve to one output path.
check_output_files(S) ==
    \E i, j \in S : i # j /\ resolved_outputs(i) \cap resolved_outputs(j) # {}

\* Lines 587-591 and 734 are not inside a try: what they raise leaves the
\* function.
after_build_mut_swallow(e, next) == next
after_build(e, next) == IF e = NoError THEN next ELSE "raised"

\* Lines 592 and 739 are not inside a try either.
after_check_mut_swallow(e, next) == next
after_check(e, next) == IF e = NoError THEN next ELSE "raised"

\* Built jobs may declare the output of job 1 again, relative or absolute.
BuiltOutputs(j) ==
    {IF j % 2 = 1 THEN RelOut(j) ELSE AbsOut(j), RelOut(1), AbsOut(1)}

\* The table of an invocation that starts at the first statement; run opens
\* no session.
CliDbStates == {STATE_RUNNING, STATE_DONE}

InitCli ==
    /\ command \in {"submit", "run"}
    /\ dependencies \in [Jobs -> SUBSET Jobs]
    /\ group_from \in [Jobs -> Jobs \cup {NoJob}]
    /\ GraphOk(dependencies, group_from)
    /\ working_directory = [j \in Jobs |-> WorkDir]
    /\ tool_output \in [Jobs -> UNION {BuiltOutputs(j) : j \in Jobs}]
    /\ \A j \in Jobs : tool_output[j] \in BuiltOutputs(j)
    /\ built_state \in [Jobs -> {STATE_HOLD, STATE_DONE}]
    /\ state = built_state
    /\ job_id = [j \in Jobs |-> NoClusterId]
    /\ force \in BOOLEAN
    /\ hold \in (IF command = "submit" THEN BOOLEAN ELSE {FALSE})
    /\ \E n \in 0..(IF command = "submit" THEN MaxDbJobs ELSE 0) :
         \E s \in [1..n -> CliDbStates], o \in [1..n -> DbOutputs] :
            db = {DbRow(i, s[i], FALSE, o[i]) : i \in 1..n}
    /\ db_before = db
    /\ attached = {}
    /\ jobs = topological_order(Jobs)
    /\ unfinished_jobs = {}
    /\ already_running = {}
    /\ gi = 1
    /\ calls = <<>>
    /\ exc = NoError
    /\ raised = NoError
    /\ pc = IF command = "submit" THEN "get_cluster" ELSE "run_create_jobs"
    /\ executed = <<>>
    /\ exit_code = 0
    /\ NoIdList

\* cluster = jip.cluster.get()
GetCluster ==
    /\ pc = "get_cluster"
    /\ \E e \in {NoError} \cup ClusterErrors :
          /\ raised' = e
          /\ pc' = after_build(e, "create_jobs")
    /\ UNCHANGED <<graph, state, job_id, db, attached, jobs, unfinished_jobs,
                   already_running, gi, calls, exc>>

\* jobs = jip.jobs.create_jobs(script, args=script_args, keep=keep, ...)
CreateJobs ==
    /\ pc = "create_jobs"
    /\ \E e \in {NoError} \cup BuildErrors :
          /\ raised' = e
          /\ pc' = after_build(e, "check_output_files")
    /\ UNCHANGED <<graph, state, job_id, db, attached, jobs, unfinished_jobs,
                   already_running, gi, calls, exc>>

\* jip.jobs.check_output_files(jobs), then the session is opened
CheckOutputFiles ==
    /\ pc = "check_output_files"
    /\ LET e == IF check_output_files(Range(jobs))
                THEN "ValidationError" ELSE NoError
       IN /\ raised' = e
          /\ pc' = after_check(e, "reconcile")
    /\ UNCHANGED <<graph, state, job_id, db, attached, jobs, unfinished_jobs,
                   already_running, gi, calls, exc>>

run_frame == <<dependencies, group_from, working_directory, tool_output,
               built_state, force, hold, db, db_before, attached, jobs,
               unfinished_jobs, already_running, calls, exc, job_id, command,
               ids, result, args, stdin, query, query_result, cmd, second>>

\* jobs = jip.jobs.create_jobs(...) and the local ids of lines 737-738
RunCreateJobs ==
    /\ pc = "run_create_jobs"
    /\ \E e \in {NoError} \cup BuildErrors :
          /\ raised' = e
          /\ pc' = after_build(e, "run_check_output_files")
    /\ UNCHANGED <<run_frame, state, gi, executed, exit_code>>

\* jip.jobs.check_output_files(jobs)
RunCheckOutputFiles ==
    /\ pc = "run_check_output_files"
    /\ LET e == IF check_output_files(Range(jobs))
                THEN "ValidationError" ELSE NoError
       IN /\ raised' = e
          /\ pc' = after_check(e, "run_loop")
    /\ UNCHANGED <<run_frame, state, gi, executed, exit_code>>

InRunLoop == pc = "run_loop" /\ gi <= Len(Groups)

\* if job.state == jip.db.STATE_DONE and not force
run_skipped_mut_ignore_force(head) == state[head] = STATE_DONE
run_skipped(head) == state[head] = STATE_DONE /\ ~force

\* jip.jobs.run(job): the group ends Done when its command succeeds and
\* Failed when it does not.
run_job(st, g, success) ==
    [j \in Jobs |-> IF j \in Range(g)
                    THEN (IF success THEN STATE_DONE ELSE STATE_FAILED)
                    ELSE st[j]]

\* if success: ... else: ... sys.exit(1)
after_run_mut_continue(success) == "run_loop"
after_run(success) == IF success THEN "run_loop" ELSE "exited"

\* One iteration of the loop of run whose head is Done and not forced.
RunSkipGroup ==
    /\ InRunLoop
    /\ run_skipped(Groups[gi][1])
    /\ gi' = gi + 1
    /\ UNCHANGED <<run_frame, state, executed, exit_code, raised, pc>>

\* One iteration of the loop of run that executes the group.
RunGroup ==
    /\ InRunLoop
    /\ ~run_skipped(Groups[gi][1])
    /\ \E success \in BOOLEAN :
          /\ state' = run_job(state, Groups[gi], success)
          /\ exit_code' = IF success THEN exit_code ELSE 1
          /\ pc' = after_run(success)
    /\ executed' = Append(executed, Groups[gi][1])
    /\ gi' = gi + 1
    /\ UNCHANGED <<run_frame, raised>>

\* the loop of run is exhausted
RunFinish ==
    /\ pc = "run_loop"
    /\ gi > Len(Groups)
    /\ pc' = "returned"
    /\ UNCHANGED <<run_frame, state, gi, executed, exit_code, raised>>

NextCli ==
    \/ GetCluster
    \/ CreateJobs
    \/ CheckOutputFiles
    \/ Next
    \/ RunCreateJobs
    \/ RunCheckOutputFiles
    \/ RunSkipGroup
    \/ RunGroup
    \/ RunFinish

SpecCli == InitCli /\ [][NextCli]_vars

(***************************************************************************)
(* resolve_job_range                                                       *)
(***************************************************************************)
MaxLen == 4
MaxId == 12

Digits == <<"0", "1", "2", "3", "4", "5", "6", "7", "8", "9">>
Whitespace == {" ", "\t", "\n"}
\* The element None of a list, which is no string.
NoneElem == <<"None">>

DigitValue(c) == (CHOOSE k \in DOMAIN Digits : Digits[k] = c) - 1
IsDigits(s) == Len(s) > 0 /\ \A k \in DOMAIN s : s[k] \in Range(Digits)

RECURSIVE ParseDigits(_)
ParseDigits(s) ==
    IF Len(s) = 0 THEN 0
    ELSE 10 * ParseDigits(SubSeq(s, 1, Len(s) - 1)) + DigitValue(s[Len(s)])

RECURSIVE strip(_)
strip(s) ==
    IF Len(s) > 0 /\ s[1] \in Whitespace THEN strip(Tail(s))
    ELSE IF Len(s) > 0 /\ s[Len(s)] \in Whitespace
         THEN strip(SubSeq(s, 1, Len(s) - 1))
         ELSE s

\* int(i) of Python 2: blanks around the literal and one sign before the
\* digits are accepted; anything else is a ValueError.
int(i) ==
    LET t == strip(i)
        signed == Len(t) > 0 /\ t[1] \in {"+", "-"}
        digits == IF signed THEN Tail(t) ELSE t
    IN IF ~IsDigits(digits) THEN [err |-> "ValueError", v |-> 0]
       ELSE [err |-> NoError,
             v |-> IF signed /\ t[1] = "-" THEN 0 - ParseDigits(digits)
                   ELSE ParseDigits(digits)]

\* to_id: the bare except turns every failure into a ValueError
to_id_mut_default(i) ==
    LET c == int(i)
    IN IF c.err # NoError \/ c.v < 0 THEN [err |-> NoError, v |-> 0] ELSE c
to_id(i) ==
    LET c == int(i)
    IN IF c.err # NoError \/ c.v < 0 THEN [err |-> "ValueError", v |-> 0] ELSE c

\* i.split("-")
RECURSIVE split(_)
split(s) ==
    IF \A k \in DOMAIN s : s[k] # "-" THEN <<s>>
    ELSE LET k == CHOOSE n \in DOMAIN s :
                     s[n] = "-" /\ \A m \in 1..(n - 1) : s[m] # "-"
         IN <<SubSeq(s, 1, k - 1)>> \o split(SubSeq(s, k + 1, Len(s)))

\* range(start, end + 1)
range(start, end) == [k \in 1..(end - start) |-> start + k - 1]

min(a, b) == IF a <= b THEN a ELSE b
max(a, b) == IF a >= b THEN a ELSE b

\* start, end = min(start, end), max(start, end)
ordered_mut_as_given(start, end) == <<start, end>>
ordered(start, end) == <<min(start, end), max(start, end)>>

\* the number of pieces of a range
range_parts_mut_more(n) == n >= 2
range_parts(n) == n = 2

\* The body of the loop for one entry: the ids it adds, or the error.
resolve_entry(i) ==
    IF i = NoneElem THEN [err |-> "AttributeError", ids |-> <<>>]
    ELSE LET s == split(i)
         IN IF Len(s) = 1
            THEN LET c == to_id(i)
                 IN [err |-> c.err, ids |-> IF c.err = NoError THEN <<c.v>> ELSE <<>>]
            ELSE IF range_parts(Len(s))
            THEN LET start == to_id(s[1])
                     end == to_id(s[2])
                     se == ordered(start.v, end.v)
                 IN IF start.err # NoError THEN [err |-> start.err, ids |-> <<>>]
                    ELSE IF end.err # NoError THEN [err |-> end.err, ids |-> <<>>]
                    ELSE [err |-> NoError, ids |-> range(se[1], se[2] + 1)]
            ELSE [err |-> "ValueError", ids |-> <<>>]

RECURSIVE resolve_entries(_)
resolve_entries(l) ==
    IF Len(l) = 0 THEN [err |-> NoError, ids |-> <<>>]
    ELSE LET first == resolve_entry(Head(l))
             rest == resolve_entries(Tail(l))
         IN IF first.err # NoError THEN first
            ELSE IF rest.err # NoError THEN rest
            ELSE [err |-> NoError, ids |-> first.ids \o rest.ids]

\* if not isinstance(ids, (list, tuple)): ids = [ids]
resolve_job_range(a) ==
    resolve_entries(IF a.kind = "list" THEN a.v ELSE <<a.v>>)

\* str(n) for n >= 0
RECURSIVE str(_)
str(n) ==
    IF n < 10 THEN <<Digits[n + 1]>>
    ELSE str(n \div 10) \o <<Digits[(n % 10) + 1]>>

RangeString(a, b) == str(a) \o <<"-">> \o str(b)

\* The strings handed to resolve_job_range: every string over Alphabet up to
\* MaxLen characters, and every range of two ids up to MaxId.
Alphabet == {"0", "1", "7", "-", "+", " ", "x"}
Strings ==
    UNION {[1..n -> Alphabet] : n \in 0..MaxLen}
        \cup {RangeString(a, b) : a, b \in 0..MaxId}

\* No invocation of submit or run is in progress.
NoSubmitButTable ==
    /\ dependencies = <<>> /\ group_from = <<>> /\ working_directory = <<>>
    /\ tool_output = <<>> /\ built_state = <<>> /\ state = <<>> /\ job_id = <<>>
    /\ force = FALSE /\ hold = FALSE
    /\ db_before = {} /\ attached = {}
    /\ jobs = <<>> /\ unfinished_jobs = {} /\ already_running = {}
    /\ gi = 1 /\ calls = <<>> /\ exc = NoError
    /\ executed = <<>> /\ exit_code = 0
NoSubmit == NoSubmitButTable /\ db = {}

InitRange ==
    /\ NoSubmit
    /\ NoQuery
    /\ command = "resolve_job_range"
    /\ \E s \in Strings : ids \in {Str(s), List(<<s>>), List(<<<<"1">>, s>>)}
    /\ result = <<>>
    /\ raised = NoError
    /\ pc = "resolve"

ResolveJobRange ==
    /\ pc = "resolve"
    /\ LET res == resolve_job_range(ids)
       IN /\ result' = res.ids
          /\ raised' = res.err
          /\ pc' = IF res.err = NoError THEN "returned" ELSE "raised"
    /\ UNCHANGED <<dependencies, group_from, working_directory, tool_output,
                   built_state, state, job_id, force, hold, db, db_before,
                   attached, jobs, unfinished_jobs, already_running, gi,
                   calls, exc, command, executed, exit_code, ids, args, stdin,
                   query, query_result, cmd, second>>

NextRange == ResolveJobRange

SpecRange == InitRange /\ [][NextRange]_vars

(***************************************************************************)
(* query_jobs_by_ids, _query_jobs and read_ids_from_pipe                   *)
(***************************************************************************)
MaxRows == 2

\* job_ids = [] if job_ids is None else job_ids
or_empty(a) == IF a.kind = "None" THEN List(<<>>) ELSE a

\* sum(map(len, [job_ids, cluster_ids])) == 0 and not query_all
nothing_asked(job_ids, cluster_ids, query_all) ==
    Len(job_ids.v) + Len(cluster_ids.v) = 0 /\ ~query_all

\* jobs.filter(Job.archived == archived), when archived is not None
by_archived(table, archived) ==
    IF archived # "None" THEN {x \in table : x.archived = (archived = "True")}
    ELSE table

\* jobs.filter(Job.id.in_(...)), when job_ids is not empty
by_id(table, job_ids, wanted) ==
    IF Len(job_ids.v) > 0 THEN {x \in table : x.id \in Range(wanted)} ELSE table

\* jobs.filter(Job.job_id.in_(...)), when cluster_ids is not empty
by_job_id_mut_skipped(table, cluster_ids, wanted) == table
by_job_id(table, cluster_ids, wanted) ==
    IF Len(cluster_ids.v) > 0 THEN {x \in table : x.job_id \in Range(wanted)}
    ELSE table

\* resolve_job_range is called for a list that is not empty
resolved(a) ==
    IF Len(a.v) > 0 THEN resolve_job_range(a) ELSE [err |-> NoError, ids |-> <<>>]

filtered(table, archived, job_ids, cluster_ids, want_ids, want_cluster) ==
    IF want_ids.err # NoError THEN [err |-> want_ids.err, rows |-> {}]
    ELSE IF want_cluster.err # NoError THEN [err |-> want_cluster.err, rows |-> {}]
    ELSE [err |-> NoError,
          rows |-> by_job_id(by_id(by_archived(table, archived),
                                   job_ids, want_ids.ids),
                             cluster_ids, want_cluster.ids)]

query_by_lists(table, job_ids, cluster_ids, archived, query_all) ==
    IF nothing_asked(job_ids, cluster_ids, query_all)
    THEN [err |-> NoError, rows |-> {}]
    ELSE filtered(table, archived, job_ids, cluster_ids,
                  resolved(job_ids), resolved(cluster_ids))

\* The rows a query selects, or the error raised while it is built.
query_jobs_by_ids(table, q) ==
    query_by_lists(table, or_empty(q.job_ids), or_empty(q.cluster_ids),
                   q.archived, q.query_all)

\* line.strip().split("\t")[0]
first_field(line) ==
    LET t == strip(line)
        tabs == {k \in DOMAIN t : t[k] = "\t"}
    IN IF tabs = {} THEN t ELSE SubSeq(t, 1, Min(tabs) - 1)

read_ids_from_pipe(in) ==
    IF ~in.isatty THEN [k \in DOMAIN in.lines |-> first_field(in.lines[k])]
    ELSE <<>>

\* if not isinstance(job_ids, (list, tuple)): job_ids = [job_ids]
as_list(a) ==
    IF a.kind = "list" THEN a
    ELSE List(<<IF a.kind = "None" THEN NoneElem ELSE a.v>>)

\* The id lists given to the queries.
IdLists == {<<>>, <<<<"1">>>>, <<<<"2">>>>, <<<<"1", "-", "2">>>>, <<<<"x">>>>}
IdValues == {None} \cup {List(l) : l \in IdLists}
PipedLines ==
    {<<>>, <<<<"1">>>>, <<<<"2", "\t", "D">>>>, <<<<" ", "1", "\n">>, <<"2", "\n">>>>,
     <<<<"\t", "2", "\n">>>>}

Tables ==
    UNION {{ {[DbRow(i, STATE_DONE, a[i], <<WorkDir, RelOut(1)>>)
                 EXCEPT !.job_id = c[i]] : i \in 1..n} :
             a \in [1..n -> BOOLEAN], c \in [1..n -> 1..MaxRows]} :
           n \in 0..MaxRows}

InitQuery ==
    /\ NoSubmitButTable
    /\ ids = List(<<>>) /\ result = <<>>
    /\ command \in {"query_jobs_by_ids", "_query_jobs"}
    /\ db \in Tables
    /\ IF command = "query_jobs_by_ids"
       THEN /\ query \in [job_ids : IdValues, cluster_ids : IdValues,
                          archived : {"None", "True", "False"},
                          query_all : BOOLEAN]
            /\ args = [has_job |-> FALSE, job |-> None,
                       has_cluster |-> FALSE, cluster |-> None]
            /\ stdin = [isatty |-> TRUE, lines |-> <<>>]
       ELSE /\ query = [job_ids |-> None, cluster_ids |-> None,
                        archived |-> "None", query_all |-> FALSE]
            /\ \E j \in IdValues \cup {Str(<<"1">>)}, c \in IdValues,
                  hj, hc \in BOOLEAN :
                  /\ ~hj => j = None
                  /\ ~hc => c = None
                  /\ args = [has_job |-> hj, job |-> j,
                             has_cluster |-> hc, cluster |-> c]
            /\ \E tty \in BOOLEAN, l \in PipedLines :
                  /\ tty => l = <<>>
                  /\ stdin = [isatty |-> tty, lines |-> l]
    /\ query_result = {}
    /\ cmd = ""
    /\ second = Alone
    /\ raised = NoError
    /\ pc = "query"

query_frame == <<dependencies, group_from, working_directory, tool_output,
                 built_state, state, job_id, force, hold, db, db_before,
                 attached, jobs, unfinished_jobs, already_running, gi, calls,
                 exc, command, executed, exit_code, ids, result, cmd,
                 second>>

\* return jobs, or the exception leaves the function
Returns(res) ==
    /\ query_result' = res.rows
    /\ raised' = res.err
    /\ pc' = IF res.err = NoError THEN "returned" ELSE "raised"

\* job_ids += read_ids_from_pipe()
piped_ids(job, in) == or_empty(as_list(job)).v \o read_ids_from_pipe(in)

\* a call of query_jobs_by_ids
QueryJobsByIds ==
    /\ pc = "query"
    /\ command = "query_jobs_by_ids"
    /\ Returns(query_jobs_by_ids(db, query))
    /\ UNCHANGED <<query_frame, args, stdin, query>>

\* a call of _query_jobs whose args has the key --job
QueryJobs ==
    /\ pc = "query"
    /\ command = "_query_jobs"
    /\ args.has_job
    /\ query' = [job_ids |-> List(piped_ids(args.job, stdin)),
                  cluster_ids |-> IF args.has_cluster THEN args.cluster
                                  ELSE List(<<>>),
                  archived |-> "None", query_all |-> FALSE]
    /\ args' = IF args.job.kind = "list"
               THEN [args EXCEPT !.job = List(piped_ids(args.job, stdin))]
               ELSE args
    /\ stdin' = [isatty |-> TRUE, lines |-> <<>>]
    /\ Returns(query_jobs_by_ids(db, query'))
    /\ UNCHANGED query_frame

\* a call of _query_jobs whose args has no key --job: args["--job"] fails
QueryJobsNoKey ==
    /\ pc = "query"
    /\ command = "_query_jobs"
    /\ ~args.has_job
    /\ raised' = "KeyError"
    /\ pc' = "raised"
    /\ UNCHANGED <<query_frame, args, stdin, query, query_result>>

NextQuery ==
    \/ QueryJobsByIds
    \/ QueryJobs
    \/ QueryJobsNoKey

SpecQuery == InitQuery /\ [][NextQuery]_vars

(***************************************************************************)
(* main and _main of jip_main                                              *)
(***************************************************************************)
\* The forms of args['<command>']: absent, a command with a module
\* jip.cli.jip_<cmd>, the path of an existing script, anything else.
Commands == {"run", "submit"}
CmdForms == {""} \cup Commands \cup {"script", "unknown"}

\* The except clauses of main.
MainErrors == BuildErrors \cup ClusterErrors \cup {"SubmissionError"}

\* The status of the process when the call of _main ends with exception e:
\* the clauses of main call sys.exit(1), and the interpreter ends with
\* status 1 on any other exception.
main_status(e) == IF e = NoError THEN 0 ELSE 1

\* The status passed to sys.exit when no command can be dispatched.
not_found_status == 0
missing_status == 1

InitMain ==
    /\ cmd \in CmdForms
    /\ command = "none"
    /\ dependencies \in [Jobs -> SUBSET Jobs]
    /\ group_from \in [Jobs -> Jobs \cup {NoJob}]
    /\ GraphOk(dependencies, group_from)
    /\ cmd \in {"", "unknown"} =>
          /\ dependencies = [j \in Jobs |-> {}]
          /\ group_from = [j \in Jobs |-> NoJob]
    /\ working_directory = [j \in Jobs |-> WorkDir]
    /\ tool_output \in [Jobs -> UNION {BuiltOutputs(j) : j \in Jobs}]
    /\ \A j \in Jobs : tool_output[j] \in BuiltOutputs(j)
    /\ built_state \in [Jobs -> {STATE_HOLD, STATE_DONE}]
    /\ state = built_state
    /\ job_id = [j \in Jobs |-> NoClusterId]
    /\ force \in BOOLEAN
    /\ hold \in (IF cmd = "submit" THEN BOOLEAN ELSE {FALSE})
    /\ \E n \in 0..(IF cmd = "submit" THEN MaxDbJobs ELSE 0) :
         \E s \in [1..n -> CliDbStates], o \in [1..n -> DbOutputs] :
            db = {DbRow(i, s[i], FALSE, o[i]) : i \in 1..n}
    /\ db_before = db
    /\ attached = {}
    /\ jobs = topological_order(Jobs)
    /\ unfinished_jobs = {}
    /\ already_running = {}
    /\ gi = 1
    /\ calls = <<>>
    /\ exc = NoError
    /\ raised = NoError
    /\ pc = "main"
    /\ executed = <<>>
    /\ exit_code = 0
    /\ ids = List(<<>>) /\ result = <<>>
    /\ args = [has_job |-> FALSE, job |-> None, has_cluster |-> FALSE, cluster |-> None]
    /\ stdin = [isatty |-> TRUE, lines |-> <<>>]
    /\ query = [job_ids |-> None, cluster_ids |-> None, archived |-> "False",
                query_all |-> TRUE]
    /\ query_result = {}
    /\ second = Alone

main_frame == <<dependencies, group_from, working_directory, tool_output,
                built_state, state, job_id, force, hold, db, db_before,
                attached, jobs, unfinished_jobs, already_running, gi, calls,
                exc, executed, ids, result, args, stdin, query, query_result,
                cmd, second>>

first_pc(c) == IF c = "submit" THEN "get_cluster" ELSE "run_create_jobs"

\* if not cmd: docopt(..., argv=['--help']); sys.exit(1).  docopt is not
\* among the sources: printing the help ends the process with status 0 or
\* returns.
MainNoCommand ==
    /\ pc = "main"
    /\ cmd = ""
    /\ exit_code' \in {0, missing_status}
    /\ pc' = "terminated"
    /\ UNCHANGED <<main_frame, command, raised>>

\* runpy.run_module("jip.cli.jip_%s" % cmd, run_name="__main__")
MainDispatch ==
    /\ pc = "main"
    /\ cmd \in Commands
    /\ command' = cmd
    /\ pc' = first_pc(cmd)
    /\ UNCHANGED <<main_frame, raised, exit_code>>

\* except ImportError, os.path.exists(cmd): jip.cli.jip_interpreter runs
\* or submits the script
MainInterpreter ==
    /\ pc = "main"
    /\ cmd = "script"
    /\ \E c \in Commands : command' = c /\ pc' = first_pc(c)
    /\ UNCHANGED <<main_frame, raised, exit_code>>

\* except ImportError, no such path: "Command %s not found", sys.exit(0)
MainNotFound ==
    /\ pc = "main"
    /\ cmd = "unknown"
    /\ exit_code' = not_found_status
    /\ pc' = "terminated"
    /\ UNCHANGED <<main_frame, command, raised>>

\* except KeyboardInterrupt: sys.exit(1), while the command builds its jobs
MainInterrupt ==
    /\ pc \in {"get_cluster", "create_jobs", "check_output_files",
               "run_create_jobs", "run_check_output_files"}
    /\ raised' = "KeyboardInterrupt"
    /\ exit_code' = 1
    /\ pc' = "terminated"
    /\ UNCHANGED <<main_frame, command>>

\* the command returned, raised, or called sys.exit
MainEnds ==
    /\ pc \in {"returned", "raised", "exited"}
    /\ exit_code' = IF pc = "exited" THEN exit_code ELSE main_status(raised)
    /\ pc' = "terminated"
    /\ UNCHANGED <<main_frame, command, raised>>

NextMain ==
    \/ MainNoCommand
    \/ MainDispatch
    \/ MainInterpreter
    \/ MainNotFound
    \/ MainInterrupt
    \/ MainEnds
    \/ NextCli

SpecMain == InitMain /\ [][NextMain]_vars

(***************************************************************************)
(* Two invocations of submit on one job table                              *)
(***************************************************************************)
\* The second invocation is submit(force=False, hold=False) of a script with
\* one job in state Hold, built in the same working directory.  Its output
\* is the output of the first built job of the other invocation, declared
\* relative or absolute, or a file of its own.
SecondOutputs == {RelOut(1), AbsOut(1), RelOut(MaxJobs + 1)}
SecondId == MaxDbJobs + MaxJobs + 1
SecondClusterId == MaxJobs + 1

SecondRow(s) ==
    [id |-> SecondId, state |-> s.state, job_id |-> s.job_id, archived |-> FALSE,
     working_directory |-> WorkDir, output |-> s.output]

\* _session.commit() of the second invocation: its row is written when the
\* job is persistent and removed when it is deleted.
second_commit_mut_whole_table(table, rows) == rows
second_commit(table, rows) == {r \in table : r.id # SecondId} \cup rows

InitTwo ==
    /\ dependencies \in [Jobs -> SUBSET Jobs]
    /\ group_from \in [Jobs -> Jobs \cup {NoJob}]
    /\ GraphOk(dependencies, group_from)
    /\ working_directory = [j \in Jobs |-> WorkDir]
    /\ tool_output = [j \in Jobs |-> IF j % 2 = 1 THEN RelOut(j) ELSE AbsOut(j)]
    /\ built_state \in [Jobs -> {STATE_HOLD, STATE_DONE}]
    /\ state = built_state
    /\ job_id = [j \in Jobs |-> NoClusterId]
    /\ force \in BOOLEAN
    /\ hold = FALSE
    /\ db = {}
    /\ db_before = db
    /\ attached = {}
    /\ jobs = topological_order(Jobs)
    /\ unfinished_jobs = {}
    /\ already_running = {}
    /\ gi = 1
    /\ calls = <<>>
    /\ exc = NoError
    /\ raised = NoError
    /\ pc = "reconcile"
    /\ command = "submit"
    /\ executed = <<>>
    /\ exit_code = 0
    /\ ids = List(<<>>) /\ result = <<>>
    /\ args = [has_job |-> FALSE, job |-> None, has_cluster |-> FALSE, cluster |-> None]
    /\ stdin = [isatty |-> TRUE, lines |-> <<>>]
    /\ query = [job_ids |-> None, cluster_ids |-> None, archived |-> "False",
                query_all |-> TRUE]
    /\ query_result = {}
    /\ cmd = ""
    /\ \E o \in SecondOutputs :
          second = [Alone EXCEPT !.pc = "reconcile", !.output = o]

two_frame == <<dependencies, group_from, working_directory, tool_output,
               built_state, state, job_id, force, hold, db_before, attached,
               jobs, unfinished_jobs, already_running, gi, calls, exc, raised,
               pc, command, executed, exit_code, ids, result, args, stdin,
               query, query_result, cmd>>

\* already_running of lines 620-635 for the one job of the second invocation
second_running(files, s) == Resolved(WorkDir, s.output) \in files

\* if not force: ... (lines 602-660) and the empty check of line 662
SecondReconcile ==
    /\ second.pc = "reconcile"
    /\ LET run == second_running(active_files(db), second)
       IN second' = [second EXCEPT !.already_running = run,
                                   !.queried_at = pc,
                                   !.pc = IF run THEN "returned" ELSE "save"]
    /\ UNCHANGED <<two_frame, db>>

\* map(_session.add, jobs); _session.commit()
SecondSave ==
    /\ second.pc = "save"
    /\ db' = second_commit(db, {SecondRow(second)})
    /\ second' = [second EXCEPT !.saved_at = pc, !.pc = "loop"]
    /\ UNCHANGED two_frame

\* The iteration of the loop in which cluster.submit accepts the job, and
\* the commit after the loop.
SecondSubmitGroup ==
    /\ second.pc = "loop"
    /\ second' = [second EXCEPT !.state = STATE_QUEUED,
                                !.job_id = SecondClusterId,
                                !.pc = "returned"]
    /\ db' = second_commit(db, {SecondRow(second')})
    /\ UNCHANGED two_frame

\* The iteration of the loop in which cluster.submit raises.
SecondSubmitRaises ==
    /\ second.pc = "loop"
    /\ second' = [second EXCEPT !.state = STATE_QUEUED, !.pc = "failure"]
    /\ UNCHANGED <<two_frame, db>>

\* submission_failure() and the bare raise
SecondFailure ==
    /\ second.pc = "failure"
    /\ db' = second_commit(db, {})
    /\ second' = [second EXCEPT !.pc = "raised"]
    /\ UNCHANGED two_frame

NextTwo ==
    \/ Next
    \/ SecondReconcile
    \/ SecondSave
    \/ SecondSubmitGroup
    \/ SecondSubmitRaises
    \/ SecondFailure

SpecTwo == InitTwo /\ [][NextTwo]_vars

(***************************************************************************)
(* Vocabulary of the properties                                            *)
(***************************************************************************)
Parents == get_parents(Jobs)
AllDone(p) == \A j \in get_subgraph(p) : built_state[j] = STATE_DONE
Collides(j) == resolved_outputs(j) \cap active_files(db_before) # {}
CollidesIn(p) == \E j \in get_subgraph(p) : Collides(j)
OwnRows(table) == {r \in table : r.id \in OwnIds}
NoIds == [j \in Jobs |-> NoClusterId]
Count(seq, x) == Cardinality({i \in DOMAIN seq : seq[i] = x})

RECURSIVE head_of(_, _)
head_of(j, S) == IF IsHead(j, S) THEN j ELSE head_of(group_from[j], S)

\* The jobs that reconciliation let through: all of them when forced, none
\* when every parent is finished, else the rebuilt list.
Survivors ==
    IF force THEN Jobs
    ELSE IF unfinished_jobs = {} THEN {} ELSE Range(jobs)

AfterSave == pc \in {"loop", "returned"}

(***************************************************************************)
(* C1  Rollback: when submit has raised after a failing cluster.submit,    *)
(* the job table equals the table before the call: no row of this          *)
(* invocation is left and every earlier row is present and unchanged.      *)
(***************************************************************************)
C1_Rollback ==
    pc = "raised" => (db = db_before /\ OwnRows(db) = {} /\ attached = {})

\* The second of three groups fails after the first was accepted, with a
\* row in the table before the call.
C1_Witness ==
    /\ pc = "raised" /\ ~hold
    /\ Len(Groups) = 3 /\ Len(calls) = 2
    /\ job_id[calls[1]] # NoClusterId
    /\ db_before # {}

(***************************************************************************)
(* C2  Order of the rollback: once cluster.submit has raised no further    *)
(* head is passed to the backend; the jobs of the batch are deleted before *)
(* the commit, the commit comes before the raise, and the exception that   *)
(* leaves submit is the one the backend raised.                            *)
(***************************************************************************)
C2_RollbackOrder ==
    [][ /\ exc # NoError => (calls' = calls /\ exc' = exc)
        /\ (exc = NoError /\ exc' # NoError) =>
              (calls' # calls /\ raised' = NoError /\ db' = db /\ attached' = attached)
        /\ pc' = "failure_commit" => (db' = db /\ raised' = NoError)
        /\ pc = "failure_commit" =>
              (attached \cap Range(jobs) = {} /\ raised' = NoError /\ pc' = "reraise")
        /\ raised' # raised =>
              (raised = NoError /\ raised' = exc /\ exc \in BackendErrors
                 /\ OwnRows(db) = {} /\ db' = db /\ pc = "reraise")
      ]_vars

\* An IOError of the backend on a group that is not the last one has left
\* submit, after an accepted submission.
C2_Witness ==
    /\ pc = "raised" /\ raised = "IOError"
    /\ Len(calls) = 2 /\ gi < Len(Groups)

(***************************************************************************)
(* C3  Skip-when-done: without force, when every built job is Done, submit *)
(* calls the backend for no job, adds no job to the session and changes no *)
(* state and no cluster id, whatever the table holds.                      *)
(***************************************************************************)
C3_SkipWhenDone ==
    (~force /\ \A j \in Jobs : built_state[j] = STATE_DONE) =>
        /\ calls = <<>>
        /\ attached = {}
        /\ db = db_before
        /\ state = built_state
        /\ job_id = NoIds
        /\ pc \in {"reconcile", "returned"}

\* submit has returned for an all-Done graph although an active row files
\* the output of a built job.
C3_Witness ==
    /\ pc = "returned" /\ ~force /\ ~hold
    /\ \A j \in Jobs : built_state[j] = STATE_DONE
    /\ \E j \in Jobs : Collides(j)

(***************************************************************************)
(* C4  Done subgraph untouched.  As claimed: without force, no job in the  *)
(* subgraph of a parent whose whole subgraph is Done is passed to          *)
(* cluster.submit or has its state or cluster id changed.                  *)
(***************************************************************************)
DoneSubgraphJobs == UNION {get_subgraph(p) : p \in {q \in Parents : AllDone(q)}}

C4_Original ==
    ~force => \A j \in DoneSubgraphJobs :
        /\ Count(calls, j) = 0
        /\ state[j] = built_state[j]
        /\ job_id[j] = NoClusterId

\* C4 as amended: without force, no job of such a subgraph is passed to
\* cluster.submit and none has its state changed; its cluster id is set only
\* when it is a follower of a group whose head is not Done, and is then the
\* cluster id of that head.
C4_DoneSubgraphUntouched ==
    ~force => \A j \in DoneSubgraphJobs :
        /\ Count(calls, j) = 0
        /\ state[j] = built_state[j]
        /\ job_id[j] # NoClusterId =>
              LET h == head_of(j, Range(jobs))
              IN /\ h # j
                 /\ built_state[h] # STATE_DONE
                 /\ job_id[j] = job_id[h]

\* A Done job below a Done parent is shared with an unfinished parent, was
\* persisted with the batch and its group was passed over by the loop.
C4_Witness ==
    /\ pc = "returned" /\ ~force /\ ~hold
    /\ calls # <<>>
    /\ \E j \in DoneSubgraphJobs :
          /\ j \in attached
          /\ j \notin Parents
          /\ head_of(j, Range(jobs)) = j
          /\ \E q \in Parents : ~AllDone(q) /\ j \in get_subgraph(q)

(***************************************************************************)
(* C5  As claimed: without force a parent is passed over as finished       *)
(* exactly when every job of its subgraph is Done, and a parent with a job *)
(* that is not Done, head or follower, and with no colliding output has    *)
(* its whole subgraph in the persisted batch.                              *)
(***************************************************************************)
C5_SkipIffAllDone ==
    (~force /\ AfterSave) => \A p \in Parents :
        /\ AllDone(p) <=> p \notin unfinished_jobs
        /\ (~AllDone(p) /\ ~CollidesIn(p)) => get_subgraph(p) \subseteq attached

(***************************************************************************)
(* C6  As claimed: without force, an unfinished parent with a colliding    *)
(* output in its subgraph is skipped, so that no job reachable only from   *)
(* it is persisted or submitted, and every unfinished parent without a     *)
(* collision has its whole subgraph persisted.                             *)
(***************************************************************************)
OnlyFrom(p) ==
    {j \in get_subgraph(p) : \A q \in Parents \ {p} : j \notin get_subgraph(q)}

C6_CollisionSkipsParent ==
    (~force /\ AfterSave) => \A p \in {q \in Parents : ~AllDone(q)} :
        IF CollidesIn(p)
        THEN \A j \in OnlyFrom(p) : j \notin attached /\ Count(calls, j) = 0
        ELSE get_subgraph(p) \subseteq attached

(***************************************************************************)
(* C7  No co-ownership: without force, no job that is persisted or passed  *)
(* to cluster.submit has a resolved output equal to the resolved output of *)
(* a row that was Queued, Running or Hold when submit was called.          *)
(***************************************************************************)
C7_NoCoOwnership ==
    ~force => \A j \in attached \cup Range(calls) : ~Collides(j)

\* A job below a skipped parent collides while another parent went through.
C7_Witness ==
    /\ pc = "returned" /\ ~force /\ ~hold
    /\ calls # <<>>
    /\ \E p \in already_running \cap unfinished_jobs :
          \E j \in get_subgraph(p) \ {p} : Collides(j)

(***************************************************************************)
(* C8  Force: with force, without hold and with a backend that accepts     *)
(* every job, every built job is persisted and the head of every group is  *)
(* Queued and was passed to cluster.submit exactly once.                   *)
(***************************************************************************)
C8_ForceSubmitsAll ==
    (force /\ ~hold /\ pc = "returned") =>
        /\ attached = Jobs
        /\ db = db_before \cup {Row(j, state, job_id) : j \in Jobs}
        /\ \A j \in Jobs :
              IF IsHead(j, Jobs)
              THEN state[j] = STATE_QUEUED /\ Count(calls, j) = 1
              ELSE Count(calls, j) = 0

\* A forced submission has returned for a graph with a Done head and a
\* colliding output.
C8_Witness ==
    /\ pc = "returned" /\ force /\ ~hold
    /\ \E j \in Jobs : IsHead(j, Jobs) /\ built_state[j] = STATE_DONE
    /\ \E j \in Jobs : Collides(j)

(***************************************************************************)
(* C9  Hold: with hold, submit persists and commits the jobs that survive  *)
(* reconciliation and returns; cluster.submit is never called, no state    *)
(* changes and no cluster id is assigned.                                  *)
(***************************************************************************)
C9_HoldOnlyPersists ==
    hold =>
        /\ calls = <<>>
        /\ state = built_state
        /\ job_id = NoIds
        /\ pc \in {"reconcile", "save", "returned"}
        /\ pc = "returned" =>
              /\ attached = Survivors
              /\ db = db_before \cup {Row(j, built_state, NoIds) : j \in Survivors}

\* A held submission has returned with jobs stored, one of them in Hold.
C9_Witness ==
    /\ pc = "returned" /\ hold
    /\ \E j \in attached : state[j] = STATE_HOLD

(***************************************************************************)
(* C10  Submission order.  As claimed: at every call of cluster.submit,    *)
(* every dependency outside the group of every member of the submitted     *)
(* group has a cluster id.                                                 *)
(***************************************************************************)
OutsideDeps(g) == UNION {dependencies[m] : m \in Range(g)} \ Range(g)

C10_Original ==
    [][calls' # calls =>
          \A d \in OutsideDeps(Groups[gi]) : job_id[d] # NoClusterId]_vars

\* C10 as amended: at every call of cluster.submit, every dependency outside
\* the submitted group that belongs to the persisted batch and whose own
\* group was not passed over as Done has a cluster id; with force these are
\* all dependencies.
Submittable(d) ==
    /\ d \in Range(jobs)
    /\ (force \/ built_state[head_of(d, Range(jobs))] # STATE_DONE)

C10_SubmissionOrder ==
    [][calls' # calls =>
          /\ \A d \in OutsideDeps(Groups[gi]) :
                Submittable(d) => job_id[d] # NoClusterId
          /\ force => \A d \in OutsideDeps(Groups[gi]) : Submittable(d)]_vars

\* A group was submitted of which a member depends on the follower of an
\* earlier group, which carries the cluster id of its own head.
C10_Witness ==
    /\ calls # <<>>
    /\ \E m \in Jobs : \E d \in dependencies[m] :
          /\ head_of(m, Range(jobs)) = calls[Len(calls)]
          /\ m \in Range(jobs) /\ d \in Range(jobs)
          /\ head_of(d, Range(jobs)) \notin {d, head_of(m, Range(jobs))}
          /\ job_id[d] # NoClusterId

(***************************************************************************)
(* C11  Group cluster id: cluster.submit is called at most once per group  *)
(* of the batch and only on its head; after the commit that follows the    *)
(* submission of a group, and when submit has returned, every member of    *)
(* the group carries the cluster id the backend gave to the head, in       *)
(* memory and in its committed row.                                        *)
(***************************************************************************)
SubmittedGroups ==
    {i \in DOMAIN Groups : i < gi /\ Count(calls, Groups[i][1]) > 0}

C11_GroupClusterId ==
    /\ \A j \in Jobs : Count(calls, j) <= 1
    /\ \A j \in Range(calls) : j \in Range(jobs) /\ head_of(j, Range(jobs)) = j
    /\ pc \in {"loop", "returned"} =>
          \A i \in SubmittedGroups : \A m \in Range(Groups[i]) :
              /\ job_id[Groups[i][1]] # NoClusterId
              /\ job_id[m] = job_id[Groups[i][1]]
              /\ Row(m, state, job_id) \in db
              /\ \A k \in SubmittedGroups \ {i} :
                    job_id[Groups[k][1]] # job_id[Groups[i][1]]

\* submit has returned after submitting a group of three jobs, or a group
\* of two jobs and a second group.
C11_Witness ==
    /\ pc = "returned" /\ ~hold
    /\ \E i \in SubmittedGroups : Len(Groups[i]) >= 2
    /\ \E i \in SubmittedGroups : Len(Groups[i]) = 3 \/ Cardinality(SubmittedGroups) = 2

(***************************************************************************)
(* C12  State monotonicity.  A step is forward for a job when it neither   *)
(* leaves a terminal state (Done, Failed, Canceled) nor goes back in the   *)
(* order Hold, Queued, Running, terminal.                                  *)
(***************************************************************************)
Terminal == {STATE_DONE, STATE_FAILED, STATE_CANCELED}
Rank(s) ==
    CASE s = STATE_HOLD -> 0
      [] s = STATE_QUEUED -> 1
      [] s = STATE_RUNNING -> 2
      [] OTHER -> 3
Forward(a, b) == Rank(a) <= Rank(b) /\ (a \in Terminal => b = a)
Heads == {Groups[i][1] : i \in DOMAIN Groups}

\* C12 as stated: no step of submit or run moves any job out of a terminal
\* state or backwards, for either value of force.
C12_Original == [][\A j \in Jobs : Forward(state[j], state'[j])]_vars

\* C12 as amended: without force no step of submit moves any job, and no
\* step of run moves a group head, out of a terminal state or backwards.
C12_Monotonic ==
    [][~force =>
         \A j \in Jobs : (command = "submit" \/ j \in Heads)
                            => Forward(state[j], state'[j])]_vars

\* submit has returned without force after queueing one job beside a Done one.
C12_Witness ==
    /\ command = "submit" /\ ~force /\ pc = "returned"
    /\ \E j, k \in Jobs : /\ built_state[j] = STATE_DONE /\ state[j] = STATE_DONE
                          /\ built_state[k] = STATE_HOLD /\ state[k] = STATE_QUEUED

(***************************************************************************)
(* C13  Archived jobs are excluded from the reconciliation query: an       *)
(* archived row in Queued, Running or Hold with the same resolved output   *)
(* never causes a parent to be skipped, so every parent found in           *)
(* already_running collides with an active row that is not archived.       *)
(***************************************************************************)
NotArchived(table) == {r \in table : ~r.archived}

C13_ArchivedExcluded ==
    \A p \in already_running :
        \E j \in get_subgraph(p) :
            resolved_outputs(j) \cap active_files(NotArchived(db_before)) # {}

(***************************************************************************)
(* C14  Empty query means empty result: for every table and every value    *)
(* of archived, query_jobs_by_ids with job-id list and cluster-id list     *)
(* both empty or None and query_all false returns an empty result; and     *)
(* _query_jobs returns an empty result when no --job value, no             *)
(* --cluster-job value and no piped id is given.                           *)
(***************************************************************************)
NoValue(a) == a \in {None, List(<<>>)}
Called == pc \in {"returned", "raised"}
EmptyResult == pc = "returned" /\ raised = NoError /\ query_result = {}
\* the id list of the query is the --job value alone
NothingPiped == Len(query.job_ids.v) = Len(as_list(args.job).v)

\* the part of C14 about query_jobs_by_ids
C14_ByIdsEmpty ==
    (/\ command = "query_jobs_by_ids" /\ Called
     /\ NoValue(query.job_ids) /\ NoValue(query.cluster_ids)
     /\ ~query.query_all)
        => EmptyResult

\* the part of C14 about _query_jobs, for an args that has the key --job
C14_QueryJobsEmpty ==
    (/\ command = "_query_jobs" /\ Called
     /\ args.has_job /\ NoValue(args.job) /\ NoValue(args.cluster)
     /\ NothingPiped)
        => EmptyResult

\* C14 as stated
C14_EmptyQueryEmptyResult == C14_ByIdsEmpty /\ C14_QueryJobsEmpty

(***************************************************************************)
(* Vocabulary of the properties of resolve_job_range                       *)
(***************************************************************************)
Resolved_(s) == pc # "resolve" /\ ids \in {Str(s), List(<<s>>)}
Ascending(lo, hi) == [k \in 1..(hi - lo + 1) |-> lo + k - 1]
Entries == IF ids.kind = "list" THEN ids.v ELSE <<ids.v>>
IsDigit(c) == \E k \in DOMAIN Digits : Digits[k] = c
AllDigits(s) == Len(s) > 0 /\ \A k \in DOMAIN s : IsDigit(s[k])

\* An endpoint written with a minus sign: a '-' that starts the entry or
\* follows another '-', with a digit after it.
HasNegative(s) ==
    \E k \in 1..(Len(s) - 1) :
        s[k] = "-" /\ (k = 1 \/ s[k - 1] = "-") /\ IsDigit(s[k + 1])

\* A bare non-negative integer, or two of them joined by one '-'.
Bare(s) == AllDigits(s)
TwoForms(s) ==
    \/ Bare(s)
    \/ \E k \in DOMAIN s :
          s[k] = "-" /\ Bare(SubSeq(s, 1, k - 1)) /\ Bare(SubSeq(s, k + 1, Len(s)))

\* The same with what the conversion of an endpoint admits: blanks around
\* the number and one '+' before its digits.
Endpoint(s) ==
    \E a, b \in 0..Len(s) :
        /\ a + b < Len(s)
        /\ \A k \in 1..a : s[k] = " "
        /\ \A k \in (Len(s) - b + 1)..Len(s) : s[k] = " "
        /\ LET core == SubSeq(s, a + 1, Len(s) - b)
           IN AllDigits(core) \/ (core[1] = "+" /\ AllDigits(Tail(core)))
TwoFormsSigned(s) ==
    \/ Endpoint(s)
    \/ \E k \in DOMAIN s :
          /\ s[k] = "-"
          /\ Endpoint(SubSeq(s, 1, k - 1))
          /\ Endpoint(SubSeq(s, k + 1, Len(s)))

(***************************************************************************)
(* C15  Ranges are order-insensitive and inclusive: for all ids A, B >= 0, *)
(* "A-B" and "B-A" resolve to the same ascending list min(A,B)..max(A,B),  *)
(* both ends included, and "A-A" resolves to the single id A.              *)
(***************************************************************************)
C15_RangeSymmetric ==
    \A a, b \in 0..MaxId :
        Resolved_(RangeString(a, b)) =>
            /\ raised = NoError
            /\ result = Ascending(IF a < b THEN a ELSE b, IF a < b THEN b ELSE a)
            /\ result = resolve_job_range(Str(RangeString(b, a))).ids
            /\ a = b => result = <<a>>

\* a descending range of several ids has been resolved
C15_Witness ==
    \E a, b \in 1..MaxId :
        a > b + 1 /\ Resolved_(RangeString(a, b)) /\ pc = "returned" /\ Len(result) > 2

(***************************************************************************)
(* C16  Negative ids always raise: an entry with an endpoint written with  *)
(* a minus sign ("-3", "-3-5", "3--5") makes resolve_job_range raise       *)
(* ValueError and return no ids, also when valid entries precede it.       *)
(***************************************************************************)
C16_NegativeRaises ==
    (pc # "resolve" /\ \E k \in DOMAIN Entries : HasNegative(Entries[k]))
        => pc = "raised" /\ raised = "ValueError" /\ result = <<>>

\* the list ["1", "-7"] has been rejected
C16_Witness ==
    pc = "raised" /\ ids = List(<<<<"1">>, <<"-", "7">>>>)

(***************************************************************************)
(* C17  Accepted forms.                                                    *)
(***************************************************************************)
\* C17 as stated: a string is accepted exactly when it is a bare
\* non-negative integer or two of them joined by one '-'; every other
\* string raises ValueError, a number with a leading '+' or surrounding
\* whitespace included.
C17_Original ==
    (pc # "resolve" /\ ids.kind = "str") =>
        IF TwoForms(ids.v) THEN pc = "returned" /\ raised = NoError
        ELSE pc = "raised" /\ raised = "ValueError" /\ result = <<>>

\* C17 as amended: the endpoints are what int() converts to a non-negative
\* number, so blanks around an endpoint and one leading '+' are accepted;
\* every other string raises ValueError.
C17_AcceptedForms ==
    (pc # "resolve" /\ ids.kind = "str") =>
        IF TwoFormsSigned(ids.v) THEN pc = "returned" /\ raised = NoError
        ELSE pc = "raised" /\ raised = "ValueError" /\ result = <<>>

\* "+1" has been resolved to the id 1, and so has " 1"
C17_Witness ==
    /\ pc = "returned" /\ result = <<1>>
    /\ ids \in {Str(<<"+", "1">>), Str(<<" ", "1">>)}

(***************************************************************************)
(* Vocabulary of the properties of the first statements and of run         *)
(***************************************************************************)
SameOutput(i, j) ==
    Resolved(working_directory[i], tool_output[i])
        = Resolved(working_directory[j], tool_output[j])
Duplicates == \E i, j \in Jobs : i # j /\ SameOutput(i, j)
Untouched ==
    /\ attached = {} /\ db = db_before /\ calls = <<>>
    /\ executed = <<>> /\ state = built_state /\ job_id = NoIds
BeforeCheck ==
    {"get_cluster", "create_jobs", "check_output_files",
     "run_create_jobs", "run_check_output_files"}
GroupOf(head) == CHOOSE g \in Range(Groups) : g[1] = head

(***************************************************************************)
(* C18  Output collision inside one invocation: when two built jobs have   *)
(* identical resolved output paths, submit raises before any job is added  *)
(* to the session, committed or submitted, and run raises before any       *)
(* group is executed.                                                      *)
(***************************************************************************)
C18_DuplicateOutputs ==
    Duplicates =>
        /\ Untouched
        /\ pc \in BeforeCheck \cup {"raised"}
        /\ pc = "raised" => raised \in ClusterErrors \cup BuildErrors

\* submit has rejected two jobs that declare one file, one of them with a
\* relative and the other with an absolute path
C18_Witness ==
    /\ command = "submit" /\ pc = "raised" /\ raised = "ValidationError"
    /\ tool_output[1] = RelOut(1) /\ tool_output[2] = AbsOut(1)

(***************************************************************************)
(* C19  Errors before persistence leave the table untouched: when          *)
(* resolving the cluster, building the jobs or the output-file check       *)
(* raises in submit, the error propagates and submit has made no           *)
(* session.add, no commit and no cluster.submit call.                      *)
(***************************************************************************)
C19_ErrorsBeforePersistence ==
    (command = "submit" /\ raised \in ClusterErrors \cup BuildErrors) =>
        pc = "raised" /\ Untouched

\* submit has been left by the error of a missing tool
C19_Witness ==
    /\ command = "submit" /\ pc = "raised" /\ raised = "ToolNotFoundException"
    /\ db # {}

(***************************************************************************)
(* C20  Local failure aborts the run: when the execution of a group fails  *)
(* in run, the process exits with status 1 and no later group is started;  *)
(* the groups that completed before the failure keep state Done.           *)
(***************************************************************************)
FailureIsLast ==
    command = "run" =>
        \A k \in DOMAIN executed :
            /\ k < Len(executed) =>
                  \A m \in Range(GroupOf(executed[k])) : state[m] = STATE_DONE
            /\ state[executed[k]] = STATE_FAILED =>
                  k = Len(executed) /\ pc = "exited" /\ exit_code = 1

C20_FailureAborts ==
    /\ []FailureIsLast
    /\ [][pc = "exited" => UNCHANGED <<executed, state, exit_code>>]_vars

\* run has exited at the failure of its second group, with a third group
\* never started
C20_Witness ==
    /\ command = "run" /\ pc = "exited" /\ exit_code = 1
    /\ Len(executed) = 2 /\ Len(Groups) > 2
    /\ state[Groups[Len(Groups)][1]] = STATE_HOLD

(***************************************************************************)
(* C21  Local execution respects topological order: whenever run starts    *)
(* executing a group, every dependency outside the group of every member   *)
(* of that group is in state Done, for force=false and force=true.         *)
(***************************************************************************)
DepsOutsideDone(g) ==
    \A m \in Range(g) : \A d \in dependencies[m] \ Range(g) : state[d] = STATE_DONE

C21_RunOrder ==
    [][(command = "run" /\ executed' # executed) => DepsOutsideDone(Groups[gi])]_vars

(***************************************************************************)
(* C22  Exit codes of the jip command: main exits with status 1 whenever   *)
(* the dispatched command raises ParserException, ValidationError,         *)
(* ToolNotFoundException, ClusterImplementationError or SubmissionError,   *)
(* and status 0 is produced only when the requested command ran            *)
(* successfully: an unknown or a missing command does not exit with 0.     *)
(***************************************************************************)
RanSuccessfully == command \in Commands /\ raised = NoError

C22_ErrorsExitOne ==
    (pc = "terminated" /\ raised \in MainErrors) => exit_code = 1

C22_ZeroOnlyOnSuccess ==
    (pc = "terminated" /\ exit_code = 0) => RanSuccessfully

\* C22 as stated
C22_ExitCodes == C22_ErrorsExitOne /\ C22_ZeroOnlyOnSuccess

(***************************************************************************)
(* C23  No partially-submitted graph remains: when submit with hold=false  *)
(* has returned, every persisted group head is Done (skipped) or Queued    *)
(* with a cluster id; when submit has ended with an exception raised       *)
(* inside the submission loop (a backend error, a failing commit of a      *)
(* group, an interrupt), no job of the batch remains in the table.         *)
(***************************************************************************)
PersistedHeads == {h \in Heads : h \in attached}
RowOf(j) == CHOOSE x \in db : x.id = RowId(j)

SecondRows(table) == {x \in table : x.id = SecondId}
RowPath(x) == Resolved(x.working_directory, x.output)
SecondPath == Resolved(WorkDir, second.output)

\* Each invocation made its query of lines 609-613 before the first commit
\* of the other one.
Interleaved ==
    /\ second.queried_at \in {"reconcile", "save"}
    /\ second.saved_at \notin {"none", "reconcile"}

ActiveTwice(table) ==
    \E x, y \in table :
        /\ x.id # y.id
        /\ x.state \in STATES_ACTIVE /\ y.state \in STATES_ACTIVE
        /\ RowPath(x) = RowPath(y)

(***************************************************************************)
(* C24  The collision check is not a lock: when two invocations of submit  *)
(* with force=false have jobs with the same resolved output and each       *)
(* makes its query of the active jobs before the other commits its batch,  *)
(* both pass the check, and when both have returned the table holds two    *)
(* submitted (Queued) jobs with that output path.                          *)
(***************************************************************************)
C24_NotALock ==
    (/\ ~force /\ built_state[1] # STATE_DONE
     /\ SecondPath \in resolved_outputs(1)
     /\ Interleaved
     /\ pc = "returned" /\ second.pc = "returned")
    => /\ already_running = {} /\ ~second.already_running
       /\ Row(1, state, job_id) \in db /\ SecondRow(second) \in db
       /\ state[1] = STATE_QUEUED /\ second.state = STATE_QUEUED
       /\ job_id[1] # NoClusterId /\ second.job_id # NoClusterId
       /\ ActiveTwice(db)

\* both have returned after such an interleaving, and the second declared
\* the path absolute where the first declared it relative
C24_Witness ==
    /\ ~force /\ Interleaved
    /\ pc = "returned" /\ second.pc = "returned"
    /\ second.output = AbsOut(1)
    /\ ActiveTwice(db)

(***************************************************************************)
(* C25  Isolation: in every interleaving of two invocations of submit on   *)
(* one table, the rollback of an invocation whose submission failed        *)
(* removes rows of that invocation only: no row of the other invocation    *)
(* is removed and none has its state or cluster id changed.                *)
(***************************************************************************)
RollingBack == pc \in {"failure", "failure_commit", "reraise"}

HeadSeq == [i \in DOMAIN Groups |-> Groups[i][1]]

DoneHeadsSkipped ==
    \A h \in Heads :
        state[h] = STATE_DONE =>
            /\ state'[h] = STATE_DONE
            /\ executed' # executed => executed'[Len(executed')] # h

ForcedRunsAll ==
    /\ Len(executed) <= Len(HeadSeq)
    /\ executed = SubSeq(HeadSeq, 1, Len(executed))
    /\ pc = "returned" => executed = HeadSeq
    /\ \A k \in DOMAIN executed : k < Len(executed) => state[executed[k]] = STATE_DONE
    /\ pc = "exited" => state[executed[Len(executed)]] = STATE_FAILED

C26_SkipAndForce ==
    /\ []((command = "run" /\ force) => ForcedRunsAll)
    /\ [][(command = "run" /\ ~force) => DoneHeadsSkipped]_vars

\* a forced run has returned after executing every group, one of which had
\* a head that was Done when it was built
C26_Witness ==
    /\ command = "run" /\ force /\ pc = "returned"
    /\ Len(executed) = Len(Groups) /\ Len(Groups) > 1
    /\ \E h \in Range(executed) : built_state[h] = STATE_DONE

(***************************************************************************)
(* C27  Dependency closure of the persisted batch: without force, every    *)
(* job that submit has persisted has each of its dependencies persisted    *)
(* in the same batch or in state Done, and so has every job passed to      *)
(* cluster.submit.                                                         *)
(***************************************************************************)
DepsClosed(j) == \A d \in dependencies[j] : d \in Range(jobs) \/ state[d] = STATE_DONE

C27_DependencyClosure ==
    (~force /\ AfterSave) =>
        \A j \in attached \cup {m \in Jobs : Count(calls, head_of(m, Range(jobs))) > 0} :
            DepsClosed(j)

(***************************************************************************)
(* C28  Filter semantics of query_jobs_by_ids: when at least one id is     *)
(* given and the query is returned, it selects exactly the rows that       *)
(* satisfy every filter that applies: local id among the range-expanded    *)
(* job_ids when job_ids is not empty, cluster id among the range-expanded  *)
(* cluster_ids when cluster_ids is not empty, archived equal to the        *)
(* argument when it is not None.  With both lists the result is the        *)
(* intersection of the two id filters.                                     *)
(***************************************************************************)
Given(a) == or_empty(a).v
Expanded(l) == Range(resolve_job_range(List(l)).ids)
IdGiven == Len(Given(query.job_ids)) + Len(Given(query.cluster_ids)) > 0

Satisfies(x) ==
    /\ Len(Given(query.job_ids)) > 0 => x.id \in Expanded(Given(query.job_ids))
    /\ Len(Given(query.cluster_ids)) > 0
          => x.job_id \in Expanded(Given(query.cluster_ids))
    /\ query.archived # "None" => x.archived = (query.archived = "True")

C28_FilterSemantics ==
    (pc = "returned" /\ command \in {"query_jobs_by_ids", "_query_jobs"} /\ IdGiven)
        => query_result = {x \in db : Satisfies(x)}

\* a query with both lists and archived=None has selected an archived row
\* and left out a row that passes the filter of the local ids alone
C28_Witness ==
    /\ pc = "returned" /\ command = "query_jobs_by_ids"
    /\ Len(Given(query.job_ids)) > 0 /\ Len(Given(query.cluster_ids)) > 0
    /\ query.archived = "None"
    /\ \E x \in query_result : x.archived
    /\ \E x \in db \ query_result : x.id \in Expanded(Given(query.job_ids))

(***************************************************************************)
(* C29  Id injection from standard input: when standard input is not a     *)
(* terminal, _query_jobs adds to the ids given with --job, after them and  *)
(* in line order, the first tab-separated field of every input line (up    *)
(* to the white space around the field), and standard input is a terminal  *)
(* afterwards; when standard input is a terminal, nothing is added.        *)
(***************************************************************************)
Chomp(line) ==
    IF Len(line) > 0 /\ line[Len(line)] = "\n"
    THEN SubSeq(line, 1, Len(line) - 1) ELSE line

FirstField(line) ==
    LET tabs == {k \in DOMAIN Chomp(line) : Chomp(line)[k] = "\t"}
    IN IF tabs = {} THEN Chomp(line) ELSE SubSeq(Chomp(line), 1, Min(tabs) - 1)

FromJob == as_list(args.job).v
Piped(l) == SubSeq(l, Len(FromJob) + 1, Len(l))

PipedAfterJob ==
    /\ Len(query'.job_ids.v) >= Len(FromJob)
    /\ SubSeq(query'.job_ids.v, 1, Len(FromJob)) = FromJob
    /\ stdin'.isatty

PipedFields ==
    IF stdin.isatty THEN Piped(query'.job_ids.v) = <<>>
    ELSE /\ Len(Piped(query'.job_ids.v)) = Len(stdin.lines)
         /\ \A k \in DOMAIN stdin.lines :
               Piped(query'.job_ids.v)[k] = strip(FirstField(stdin.lines[k]))

QueryJobsWithJob ==
    /\ pc = "query" /\ pc' # pc
    /\ command = "_query_jobs"
    /\ args.has_job /\ args.job # None

C29_IdInjection ==
    [][QueryJobsWithJob => (PipedAfterJob /\ PipedFields)]_vars

====
